---- MODULE Spec2Model ----
(***************************************************************************)
(* Model of the VK long-poll bot of Stitch Cafe (src/vk_lp_main.py):       *)
(* the ingestion loop longpoll_loop, the command handlers it dispatches    *)
(* to, the order generator and the new-order pipeline.  The persistence    *)
(* store (database), the special-order rules (data.special_orders), the    *)
(* catalogs (data.dishes, data.levels) and utils.is_admin are imported by  *)
(* the source but are not part of it; they are modelled from spec.md.      *)
(***************************************************************************)
EXTENDS Integers, Sequences, FiniteSets, TLC

VARIABLES
    DISHES_BY_LEVEL,      \* data.dishes catalog: level -> list of <<name, points>>
    SPECIAL_ORDERS,       \* data.special_orders table: order index -> tag
    ALLOWED_PEER_ID_INT,  \* the optional single-destination allow-list: {} or {peer}
    pc,                   \* position of longpoll_loop
    server, key, ts,      \* the Long-Poll cursor held by longpoll_loop
    req,                  \* the cursor the last a_check request was built from
    last,                 \* what the last loop iteration did
    updates,              \* the batch being iterated: length n, next position i
    users,                \* store: user id -> user row (exists = FALSE: no row)
    active_orders,        \* store: user id -> Active Order (exists = FALSE: none)
    last_orders,          \* store: user id -> Last Completed Order (exists = FALSE: none)
    run,                  \* what the last dispatched event did
    sent,                 \* the messages.send calls of the last dispatched event
    created,              \* per user: the tags of the last two orders created
    probe,                \* the last direct call of a pure function and its result,
                          \* or the one event a specification dispatches
    inflight              \* two loops on one store: per loop, the handler it is in,
                          \* its position and its local variables

vars == <<DISHES_BY_LEVEL, SPECIAL_ORDERS, ALLOWED_PEER_ID_INT, pc, server, key,
          ts, req, last, updates, users, active_orders, last_orders, run, sent,
          created, probe, inflight>>

cfgVars == <<DISHES_BY_LEVEL, SPECIAL_ORDERS, ALLOWED_PEER_ID_INT>>
loopVars == <<pc, server, key, ts, req, last, updates>>
dbVars == <<users, active_orders, last_orders>>
obsVars == <<run, sent, created>>

----------------------------------------------------------------------------
(* Bounds of the model *)

\* a user completes at most this many orders
MaxOrders == 3
\* a poll response carries at most this many events
MaxBatch == 2
\* generate_regular_order is called directly with levels 0..MaxLevelArg
MaxLevelArg == 4
\* a "done" is handled for a user with 0..MaxCount completed orders
MaxCount == 200
\* with two loops on one store, each loop handles at most this many commands
MaxCommands == 2

----------------------------------------------------------------------------
(* Values *)

\* Python's None, for a tag, a directive or a command code
None == "None"

Min(a, b) == IF a < b THEN a ELSE b
Max(a, b) == IF a > b THEN a ELSE b

Range(s) == {s[i] : i \in 1..Len(s)}

RECURSIVE SumPoints(_)
\* sum(v for (_, v) in dishes)
SumPoints(dishes) ==
    IF dishes = <<>> THEN 0 ELSE Head(dishes)[2] + SumPoints(Tail(dishes))

Names(dishes) == [i \in 1..Len(dishes) |-> dishes[i][1]]

\* a sequence without repeated elements
Distinct(s) == \A i, j \in 1..Len(s) : i # j => s[i] # s[j]

----------------------------------------------------------------------------
(* Order Generator: generate_regular_order *)

\* the highest catalog level the generator looks at
TOP_DISH_LEVEL == 3

RECURSIVE Opened(_, _, _)
\* opened: the lists of levels lv..dish_level, concatenated
\* (DISHES_BY_LEVEL.get(lv, []) for a level the catalog does not hold)
Opened(cat, lv, dish_level) ==
    IF lv > dish_level THEN <<>>
    ELSE (IF lv \in DOMAIN cat THEN cat[lv] ELSE <<>>) \o Opened(cat, lv + 1, dish_level)

\* generate_regular_order without "d not in take" in the first loop
ShuffledPicksRepeats(pool) ==
    LET S == Range(pool) IN
    IF S # {} THEN {<<a, b>> : <<a, b>> \in S \X S} ELSE {<<>>}

\* What the first loop leaves in take after cur, for every outcome of
\* random.shuffle(pool): the first two distinct dishes of the shuffled pool,
\* that is any two distinct dishes of the pool in any order, or all of the
\* pool when it holds fewer than two distinct dishes.
ShuffledPicks(pool) ==
    LET S == Range(pool) IN
    IF Cardinality(S) >= 2 THEN {<<a, b>> : <<a, b>> \in {q \in S \X S : q[1] # q[2]}}
    ELSE IF Cardinality(S) = 1 THEN {<<a>> : a \in S}
    ELSE {<<>>}

RECURSIVE BackfillPass(_, _)
\* one pass of "for d in DISHES_BY_LEVEL[0]" inside the while loop
BackfillPass(take, level0) ==
    IF level0 = <<>> THEN take
    ELSE LET d == Head(level0)
             t1 == IF d \notin Range(take) THEN Append(take, d) ELSE take
         IN IF Len(t1) = 3 THEN t1 ELSE BackfillPass(t1, Tail(level0))

\* The while loop: after one pass that leaves fewer than 3 dishes every dish
\* of level 0 is in take, so no later pass adds one and the loop never ends.
Backfill(take, level0) ==
    IF Len(take) >= 3 THEN [kind |-> "ok", take |-> SubSeq(take, 1, 3)]
    ELSE LET t1 == BackfillPass(take, level0) IN
         IF Len(t1) >= 3 THEN [kind |-> "ok", take |-> SubSeq(t1, 1, 3)]
         ELSE [kind |-> "hang", take |-> t1]

\* The set of outcomes of generate_regular_order(level) on catalog cat:
\* a returned order, an exception (level 0 missing from the catalog, or an
\* empty pool given to random.choice), or a loop that never ends.
generate_regular_order(cat, level) ==
    LET dish_level == Min(level, TOP_DISH_LEVEL)
        opened == Opened(cat, 0, dish_level)
    IN  IF 0 \notin DOMAIN cat THEN {[kind |-> "raise", take |-> <<>>]}
        ELSE LET current_pool == IF dish_level \in DOMAIN cat
                                 THEN cat[dish_level] ELSE cat[0]
             IN IF current_pool = <<>> THEN {[kind |-> "raise", take |-> <<>>]}
                ELSE UNION { { Backfill(<<cur>> \o p, cat[0]) :
                               p \in ShuffledPicks(SelectSeq(opened, LAMBDA d : d # cur)) } :
                             cur \in Range(current_pool) }

----------------------------------------------------------------------------
(* Catalogs and rules imported by the source (data.dishes, data.levels,      *)
(* data.special_orders): the tables are configuration, modelled from spec.md *)

\* the four achievement flags, named by the tag of the directive that sets them
Tags == {"student", "critic", "dirty_plate", "second_chef"}

\* order_config["type"] of each directive
SPECIAL_TYPE(tag) ==
    CASE tag = "student" -> "regular"
      [] tag = "critic" -> "double_previous"
      [] tag = "dirty_plate" -> "half_new_order"
      [] OTHER -> "regular"

\* order_config["dish"] of a regular-with-fixed-dish directive
SPECIAL_DISH(tag) == <<tag, 10>>

NoFlags == [t \in Tags |-> FALSE]

\* check_special_order(order_index, flags): the directive reserved for the
\* index, unless its achievement flag is already set; None otherwise
check_special_order(table, idx, flags) ==
    IF idx \in DOMAIN table /\ ~flags[table[idx]] THEN table[idx] ELSE None

\* count thresholds of the Level Catalog: level k is reached at LEVEL_AT[k] orders
LEVEL_AT == <<1, 3>>

LevelOf(n) == Cardinality({k \in 1..Len(LEVEL_AT) : LEVEL_AT[k] <= n})

\* the catalog of the running bot
StandardDishes ==
    (0 :> <<(<<"tea", 2>>), (<<"bun", 3>>), (<<"pie", 4>>)>>) @@
    (1 :> <<(<<"soup", 5>>)>>) @@
    (2 :> <<(<<"cake", 6>>)>>) @@
    (3 :> <<(<<"roast", 7>>)>>)

\* the special-order tables the bot is run with, one per configuration
SpecialConfigs ==
    { (2 :> "student") @@ (3 :> "second_chef") @@ (4 :> "critic"),
      (1 :> "critic") @@ (2 :> "dirty_plate") @@ (4 :> "second_chef") }

----------------------------------------------------------------------------
(* The new-order pipeline: _vk_new_order_logic *)

\* _order_index
order_index(total_orders) == total_orders + 1

\* double_previous that copies the Last Completed Order as it is
DoubledDishesSame(last_dishes) == last_dishes

\* doubled_dishes of the double_previous directive
DoubledDishes(last_dishes) ==
    [i \in 1..Len(last_dishes) |-> <<last_dishes[i][1], last_dishes[i][2] * 2>>]

\* half_dishes of the half_new_order directive, after the residual is added
\* to the first dish
HalfDishes(dishes) ==
    LET total == SumPoints(dishes)
        half_total == total \div 2
        half_dishes == [i \in 1..Len(dishes) |->
                          <<dishes[i][1], Max(1, dishes[i][2] \div 2)>>]
        half_crosses == SumPoints(half_dishes)
    IN  IF half_dishes # <<>> /\ half_crosses # half_total
        THEN LET diff == half_total - half_crosses
             IN [half_dishes EXCEPT ![1] = <<half_dishes[1][1],
                                             Max(1, half_dishes[1][2] + diff)>>]
        ELSE half_dishes

\* half_crosses as the reply shows it
HalfCrosses(dishes) ==
    LET total == SumPoints(dishes)
        half_dishes == [i \in 1..Len(dishes) |->
                          <<dishes[i][1], Max(1, dishes[i][2] \div 2)>>]
    IN  IF half_dishes # <<>> /\ SumPoints(half_dishes) # total \div 2
        THEN total \div 2 ELSE SumPoints(half_dishes)

\* _vk_new_order_logic without the suppression rule
LastOrderNeverSpecial(user, last_order) == FALSE

\* last_order_was_special
LastOrderWasSpecial(user, last_order) ==
    user.total_orders > 0 /\ last_order.exists /\ last_order.tag # None

\* special_result: check_special_order is evaluated only when the Last
\* Completed Order was not special
SpecialResult(table, user, last_order) ==
    IF ~LastOrderWasSpecial(user, last_order)
    THEN check_special_order(table, order_index(user.total_orders), user.flags)
    ELSE None

\* a generated regular order, stored without a tag (lines 305-319)
RegularOutcomes(cat, user, checked, directive) ==
    { [kind |-> g.kind, dishes |-> g.take, tag |-> None, checked |-> checked,
       directive |-> directive, generated |-> g.take,
       text |-> [t |-> "NEW_ORDER_MESSAGE", dishes |-> g.take,
                 total |-> SumPoints(g.take)]] :
      g \in generate_regular_order(cat, user.level) }

\* The outcomes of _vk_new_order_logic for a user without an Active Order:
\* the order save_active_order stores (dishes, tag) and the reply text, or
\* the generator raising or not returning; generated is what
\* generate_regular_order returned to it.
VkNewOrderLogic(cat, table, user, last_order) ==
    LET checked == ~LastOrderWasSpecial(user, last_order)
        special_result == SpecialResult(table, user, last_order)
        order_type == IF special_result = None THEN None
                      ELSE SPECIAL_TYPE(special_result)
    IN  IF special_result # None /\ order_type = "double_previous" /\ last_order.exists
        THEN { [kind |-> "ok", dishes |-> DoubledDishes(last_order.dishes),
                tag |-> special_result, checked |-> checked,
                directive |-> special_result, generated |-> <<>>,
                text |-> [t |-> "double_previous", dishes |-> <<>>,
                          total |-> last_order.crosses * 2]] }
        ELSE IF special_result # None /\ order_type = "half_new_order"
        THEN { [kind |-> g.kind,
                dishes |-> IF g.kind = "ok" THEN HalfDishes(g.take) ELSE g.take,
                tag |-> special_result, checked |-> checked,
                directive |-> special_result, generated |-> g.take,
                text |-> [t |-> "half_new_order",
                          dishes |-> IF g.kind = "ok" THEN HalfDishes(g.take) ELSE g.take,
                          total |-> HalfCrosses(g.take)]] :
               g \in generate_regular_order(cat, user.level) }
        ELSE IF special_result # None /\ order_type = "regular"
        THEN { [kind |-> "ok", dishes |-> <<SPECIAL_DISH(special_result)>>,
                tag |-> special_result, checked |-> checked,
                directive |-> special_result, generated |-> <<>>,
                text |-> [t |-> "regular", dishes |-> <<>>, total |-> 0]] }
        ELSE RegularOutcomes(cat, user, checked, special_result)

----------------------------------------------------------------------------
(* Inbound events and the routing of longpoll_loop (lines 601-669) *)

UserIds == {1, 2}
\* utils.is_admin: the admin allow-list
AdminIds == {2}
\* group conversations; a private conversation has peer_id = from_id
Chats == {100}

is_admin(user_id) == user_id \in AdminIds

\* texts are sequences of characters
LowerChar(c) ==
    CASE c = "N" -> "n" [] c = "E" -> "e" [] c = "W" -> "w" [] OTHER -> c

\* str.lower
Lower(text) == [i \in 1..Len(text) |-> LowerChar(text[i])]

RECURSIVE LStrip(_)
LStrip(text) ==
    IF text # <<>> /\ Head(text) = " " THEN LStrip(Tail(text)) ELSE text

RECURSIVE RStrip(_)
RStrip(text) ==
    IF text # <<>> /\ text[Len(text)] = " "
    THEN RStrip(SubSeq(text, 1, Len(text) - 1)) ELSE text

\* str.strip
Strip(text) == RStrip(LStrip(text))

\* str.startswith
StartsWith(text, prefix) ==
    Len(text) >= Len(prefix) /\ SubSeq(text, 1, Len(prefix)) = prefix

Texts ==
    { <<"/", "n", "e", "w">>, <<" ", "/", "N", "e", "w", " ">>,
      <<"/", "m", "y">>, <<"/", "d", "o", "n", "e">>,
      <<"/", "s", "t", "a", "r", "t">>, <<"/", "t", "o", "p", "1", "0">>,
      <<"/", "t", "o", "p">>, <<"/", "r", "e", "s", "e", "t">>,
      <<"/", "f", "o", "o">>, <<"h", "i">>, <<" ">> }

\* the text of a keyboard button
ButtonLabel == <<"b", "t", "n">>

\* msg["payload"]: absent, or a string that is JSON for a dict with the
\* given "cmd" (<<>>: no such key, or an empty one), JSON for something
\* else, or not JSON
NoPayload == [kind |-> "absent", cmd |-> <<>>]

Payloads ==
    { NoPayload,
      [kind |-> "dict", cmd |-> <<"n", "e", "w">>],
      [kind |-> "dict", cmd |-> <<"N", "E", "W">>],
      [kind |-> "dict", cmd |-> <<"m", "y">>],
      [kind |-> "dict", cmd |-> <<"d", "o", "n", "e">>],
      [kind |-> "dict", cmd |-> <<>>],
      [kind |-> "nondict", cmd |-> <<>>],
      [kind |-> "malformed", cmd |-> <<>>] }

\* the texts the admin sends
AdminTexts ==
    { <<"/", "t", "o", "p", "1", "0">>, <<"/", "t", "o", "p">>,
      <<"/", "r", "e", "s", "e", "t">> }

\* The events a poll response can carry: every text and every button from
\* the player (user 1), the admin commands from the admin (user 2), each in
\* a private conversation (peer_id = from_id) or in a group one.  from_int
\* and peer_int say whether from_id and peer_id are ints.
Messages ==
    { [type |-> "message_new", text |-> t, from_id |-> 1, peer_id |-> p,
       from_int |-> TRUE, peer_int |-> TRUE, payload |-> NoPayload] :
      t \in Texts, p \in {1} \cup Chats }
    \cup
    { [type |-> "message_new", text |-> ButtonLabel, from_id |-> 1, peer_id |-> p,
       from_int |-> TRUE, peer_int |-> TRUE, payload |-> pl] :
      pl \in Payloads, p \in {1} \cup Chats }
    \cup
    { [type |-> "message_new", text |-> t, from_id |-> 2, peer_id |-> p,
       from_int |-> TRUE, peer_int |-> TRUE, payload |-> NoPayload] :
      t \in AdminTexts, p \in {2} \cup Chats }
    \cup
    { [type |-> "message_reply", text |-> <<"/", "n", "e", "w">>, from_id |-> 1,
       peer_id |-> 1, from_int |-> TRUE, peer_int |-> TRUE, payload |-> NoPayload],
      [type |-> "message_new", text |-> <<"/", "n", "e", "w">>, from_id |-> 1,
       peer_id |-> 1, from_int |-> FALSE, peer_int |-> TRUE, payload |-> NoPayload],
      [type |-> "message_new", text |-> <<"/", "n", "e", "w">>, from_id |-> 1,
       peer_id |-> 1, from_int |-> TRUE, peer_int |-> FALSE, payload |-> NoPayload] }

\* cmd, as lines 621-629 compute it from the payload; <<>> stands for both
\* None and the empty string, which match no command code
PayloadCmd(payload) ==
    IF payload.kind = "dict" THEN Lower(payload.cmd) ELSE <<>>

\* the routing without its last elif: an unknown /command is passed over
CommandNoUnknown(msg, allowed) ==
    LET text == Strip(msg.text)
        cmd == PayloadCmd(msg.payload)
        lower == Lower(text)
    IN  IF msg.type # "message_new" THEN "skip"
        ELSE IF text = <<>> THEN "skip"
        ELSE IF ~msg.from_int \/ ~msg.peer_int THEN "skip"
        ELSE IF allowed # {} /\ msg.peer_id \notin allowed THEN "skip"
        ELSE IF cmd = <<"n", "e", "w">> \/ StartsWith(lower, <<"/", "n", "e", "w">>) THEN "new"
        ELSE IF cmd = <<"m", "y">> \/ StartsWith(lower, <<"/", "m", "y">>) THEN "my"
        ELSE IF cmd = <<"d", "o", "n", "e">> \/ StartsWith(lower, <<"/", "d", "o", "n", "e">>) THEN "done"
        ELSE IF StartsWith(lower, <<"/", "s", "t", "a", "r", "t">>) THEN "start"
        ELSE IF StartsWith(lower, <<"/", "t", "o", "p", "1", "0">>) THEN "top10"
        ELSE IF StartsWith(lower, <<"/", "t", "o", "p">>) THEN "top"
        ELSE IF StartsWith(lower, <<"/", "r", "e", "s", "e", "t">>) THEN "reset"
        ELSE "ignored"

\* the routing without the allow-list check
CommandNoAllowList(msg, allowed) ==
    LET text == Strip(msg.text)
        cmd == PayloadCmd(msg.payload)
        lower == Lower(text)
    IN  IF msg.type # "message_new" THEN "skip"
        ELSE IF text = <<>> THEN "skip"
        ELSE IF ~msg.from_int \/ ~msg.peer_int THEN "skip"
        ELSE IF cmd = <<"n", "e", "w">> \/ StartsWith(lower, <<"/", "n", "e", "w">>) THEN "new"
        ELSE IF cmd = <<"m", "y">> \/ StartsWith(lower, <<"/", "m", "y">>) THEN "my"
        ELSE IF cmd = <<"d", "o", "n", "e">> \/ StartsWith(lower, <<"/", "d", "o", "n", "e">>) THEN "done"
        ELSE IF StartsWith(lower, <<"/", "s", "t", "a", "r", "t">>) THEN "start"
        ELSE IF StartsWith(lower, <<"/", "t", "o", "p", "1", "0">>) THEN "top10"
        ELSE IF StartsWith(lower, <<"/", "t", "o", "p">>) THEN "top"
        ELSE IF StartsWith(lower, <<"/", "r", "e", "s", "e", "t">>) THEN "reset"
        ELSE IF StartsWith(lower, <<"/">>) THEN "unknown"
        ELSE "ignored"

\* The branch of the routing an event takes: "skip" for an event the loop
\* passes over before routing, else the handler, "unknown" or "ignored".
Command(msg, allowed) ==
    LET text == Strip(msg.text)
        cmd == PayloadCmd(msg.payload)
        lower == Lower(text)
    IN  IF msg.type # "message_new" THEN "skip"
        ELSE IF text = <<>> THEN "skip"
        ELSE IF ~msg.from_int \/ ~msg.peer_int THEN "skip"
        ELSE IF allowed # {} /\ msg.peer_id \notin allowed THEN "skip"
        ELSE IF cmd = <<"n", "e", "w">> \/ StartsWith(lower, <<"/", "n", "e", "w">>) THEN "new"
        ELSE IF cmd = <<"m", "y">> \/ StartsWith(lower, <<"/", "m", "y">>) THEN "my"
        ELSE IF cmd = <<"d", "o", "n", "e">> \/ StartsWith(lower, <<"/", "d", "o", "n", "e">>) THEN "done"
        ELSE IF StartsWith(lower, <<"/", "s", "t", "a", "r", "t">>) THEN "start"
        ELSE IF StartsWith(lower, <<"/", "t", "o", "p", "1", "0">>) THEN "top10"
        ELSE IF StartsWith(lower, <<"/", "t", "o", "p">>) THEN "top"
        ELSE IF StartsWith(lower, <<"/", "r", "e", "s", "e", "t">>) THEN "reset"
        ELSE IF StartsWith(lower, <<"/">>) THEN "unknown"
        ELSE "ignored"

----------------------------------------------------------------------------
(* The persistence store (module database), modelled from spec.md section 6 *)

NoUserRow == [exists |-> FALSE, total_orders |-> 0, level |-> 0, flags |-> NoFlags]
NoOrder == [exists |-> FALSE, dishes |-> <<>>, tag |-> None]
NoLastOrder == [exists |-> FALSE, dishes |-> <<>>, crosses |-> 0, tag |-> None]

\* fetch_user: fetch-or-create the row of user_id
fetch_user(rows, user_id) ==
    IF rows[user_id].exists THEN rows
    ELSE [rows EXCEPT ![user_id] = [NoUserRow EXCEPT !.exists = TRUE]]

\* save_active_order
save_active_order(orders, user_id, dishes, tag) ==
    [orders EXCEPT ![user_id] = [exists |-> TRUE, dishes |-> dishes, tag |-> tag]]

\* clear_active_order
clear_active_order(orders, user_id) == [orders EXCEPT ![user_id] = NoOrder]

\* finish_order_and_level that writes the flags anew from the tag at hand
FinishOrderOneFlag(rows, user_id, tag) ==
    LET user == rows[user_id]
        n_total == user.total_orders + 1
    IN  [rows EXCEPT ![user_id] =
           [exists |-> TRUE, total_orders |-> n_total,
            level |-> LevelOf(n_total),
            flags |-> [t \in Tags |-> t = tag]]]

\* finish_order_and_level, on the user rows: count + 1, the flag of a
\* milestone tag set, the level recomputed from the count thresholds
finish_order_and_level(rows, user_id, tag) ==
    LET user == rows[user_id]
        n_total == user.total_orders + 1
    IN  [rows EXCEPT ![user_id] =
           [exists |-> TRUE, total_orders |-> n_total,
            level |-> LevelOf(n_total),
            flags |-> IF tag \in Tags THEN [user.flags EXCEPT ![tag] = TRUE]
                      ELSE user.flags]]

\* finish_order_and_level, on the Last Completed Orders: the order being
\* completed replaces the previous one
record_last_order(lasts, user_id, order, order_crosses) ==
    [lasts EXCEPT ![user_id] = [exists |-> TRUE, dishes |-> order.dishes,
                                crosses |-> order_crosses, tag |-> order.tag]]

\* the rows of "SELECT ... FROM users ORDER BY total_orders DESC, level DESC":
\* every order of the rows the ORDER BY allows
StatsRows(rows) ==
    LET E == {u \in UserIds : rows[u].exists}
        Before(a, b) == \/ rows[a].total_orders > rows[b].total_orders
                        \/ /\ rows[a].total_orders = rows[b].total_orders
                           /\ rows[a].level >= rows[b].level
    IN  { q \in [1..Cardinality(E) -> E] :
            /\ \A i, j \in 1..Cardinality(E) : i # j => q[i] # q[j]
            /\ \A i, j \in 1..Cardinality(E) : i < j => Before(q[i], q[j]) }

\* LIMIT 10 of the top-10 query
TOP10_LIMIT == 10

RowsText(rows, q) ==
    [i \in 1..Len(q) |-> <<q[i], rows[q[i]].total_orders, rows[q[i]].level>>]

----------------------------------------------------------------------------
(* Outbound messages: send_message *)

Text(t) == [t |-> t, dishes |-> <<>>, total |-> 0, suffix |-> None]

Msg(peer_id, text) == [peer |-> peer_id, text |-> text]

\* send_message never raises: a failed messages.send is logged and the
\* caller goes on.  ok records whether the call went through.
Delivery(msgs) ==
    { [i \in 1..Len(msgs) |-> [peer |-> msgs[i].peer, text |-> msgs[i].text,
                               ok |-> f[i]]] :
      f \in [1..Len(msgs) -> BOOLEAN] }

NoRun == [h |-> "none", uid |-> 0, peer |-> 0, pos |-> 0, checked |-> FALSE,
          directive |-> None, finished |-> FALSE, fin_tag |-> None,
          fin_crosses |-> 0, raised |-> FALSE]

RunOf(h, user_id, peer_id) ==
    [NoRun EXCEPT !.h = h, !.uid = user_id, !.peer = peer_id, !.pos = updates.i + 1]

\* the tags of the last two orders created for a user
Created(hist, tag) == IF Len(hist) < 2 THEN Append(hist, tag) ELSE <<hist[2], tag>>

----------------------------------------------------------------------------
(* The loop moving on after an event (the for loop of lines 601-669) *)

\* a for loop left after its first event
AdvanceDropsRest(outcome) ==
    /\ updates' = [updates EXCEPT !.i = @ + 1]
    /\ pc' = IF outcome = "raise" THEN "terminated"
             ELSE IF outcome = "hang" THEN "hung"
             ELSE "poll"
    /\ UNCHANGED <<server, key, ts, req, last, probe, inflight>>
    /\ UNCHANGED cfgVars

\* outcome: "ok" when the handler returned, "raise" when it raised (nothing
\* catches it: longpoll_loop ends), "hang" when it never returns
Advance(outcome) ==
    /\ updates' = [updates EXCEPT !.i = @ + 1]
    /\ pc' = IF outcome = "raise" THEN "terminated"
             ELSE IF outcome = "hang" THEN "hung"
             ELSE IF updates.i + 1 = updates.n THEN "poll" ELSE "dispatch"
    /\ UNCHANGED <<server, key, ts, req, last, probe, inflight>>
    /\ UNCHANGED cfgVars

\* the values of the allow-list: not configured, or one group conversation
AllowLists == {{}} \cup {{c} : c \in Chats}

\* for each allow-list, the routes <<branch, from_id, peer_id>> of the events
Routes ==
    [a \in AllowLists |-> {<<Command(m, a), m.from_id, m.peer_id>> : m \in Messages}]

\* the loop is at an event from user_id in peer_id that the routing sends to
\* h: any event, or the event probe.msg when a specification fixes it
Routed(h, user_id, peer_id) ==
    /\ pc = "dispatch"
    /\ updates.i < updates.n
    /\ <<h, user_id, peer_id>> \in Routes[ALLOWED_PEER_ID_INT]
    /\ probe.fn = "event"
       => <<h, user_id, peer_id>> =
            <<Command(probe.msg, ALLOWED_PEER_ID_INT), probe.msg.from_id,
              probe.msg.peer_id>>

----------------------------------------------------------------------------
(* Command handlers *)

\* handle_new without the check for an Active Order
HandleNewNoGuard(user_id, peer_id) ==
    LET rows == fetch_user(users, user_id)
        user == rows[user_id]
    IN  \E o \in VkNewOrderLogic(DISHES_BY_LEVEL, SPECIAL_ORDERS, user,
                                 last_orders[user_id]) :
             /\ users' = rows
             /\ active_orders' = IF o.kind = "ok"
                                 THEN save_active_order(active_orders, user_id,
                                                        o.dishes, o.tag)
                                 ELSE active_orders
             /\ created' = IF o.kind = "ok"
                           THEN [created EXCEPT ![user_id] = Created(@, o.tag)]
                           ELSE created
             /\ UNCHANGED last_orders
             /\ sent' \in (IF o.kind = "ok"
                           THEN Delivery(<<Msg(peer_id,
                                   [t |-> o.text.t, dishes |-> o.text.dishes,
                                    total |-> o.text.total, suffix |-> None])>>)
                           ELSE {<<>>})
             /\ run' = [RunOf("new", user_id, peer_id) EXCEPT
                          !.checked = o.checked, !.directive = o.directive,
                          !.raised = (o.kind = "raise")]
             /\ Advance(o.kind)

\* handle_new
HandleNew(user_id, peer_id) ==
    LET rows == fetch_user(users, user_id)
        user == rows[user_id]
        active == active_orders[user_id]
    IN  IF active.exists
        THEN /\ users' = rows
             /\ UNCHANGED <<active_orders, last_orders, created>>
             /\ sent' \in Delivery(<<Msg(peer_id, Text("ALREADY_HAS_ORDER"))>>)
             /\ run' = RunOf("new", user_id, peer_id)
             /\ Advance("ok")
        ELSE \E o \in VkNewOrderLogic(DISHES_BY_LEVEL, SPECIAL_ORDERS, user,
                                      last_orders[user_id]) :
             /\ users' = rows
             /\ active_orders' = IF o.kind = "ok"
                                 THEN save_active_order(active_orders, user_id,
                                                        o.dishes, o.tag)
                                 ELSE active_orders
             /\ created' = IF o.kind = "ok"
                           THEN [created EXCEPT ![user_id] = Created(@, o.tag)]
                           ELSE created
             /\ UNCHANGED last_orders
             /\ sent' \in (IF o.kind = "ok"
                           THEN Delivery(<<Msg(peer_id,
                                   [t |-> o.text.t, dishes |-> o.text.dishes,
                                    total |-> o.text.total, suffix |-> None])>>)
                           ELSE {<<>>})
             /\ run' = [RunOf("new", user_id, peer_id) EXCEPT
                          !.checked = o.checked, !.directive = o.directive,
                          !.raised = (o.kind = "raise")]
             /\ Advance(o.kind)

\* handle_my that totals the dishes instead of their points
HandleMyCounts(user_id, peer_id) ==
    LET rows == fetch_user(users, user_id)
        active == active_orders[user_id]
    IN  /\ users' = rows
        /\ UNCHANGED <<active_orders, last_orders, created>>
        /\ sent' \in Delivery(<<Msg(peer_id,
                       IF ~active.exists
                       THEN Text("NO_ACTIVE_ORDER")
                       ELSE [t |-> "MY_ORDER", dishes |-> active.dishes,
                             total |-> Len(active.dishes),
                             suffix |-> None])>>)
        /\ run' = RunOf("my", user_id, peer_id)
        /\ Advance("ok")

\* handle_my
HandleMy(user_id, peer_id) ==
    LET rows == fetch_user(users, user_id)
        active == active_orders[user_id]
    IN  /\ users' = rows
        /\ UNCHANGED <<active_orders, last_orders, created>>
        /\ sent' \in Delivery(<<Msg(peer_id,
                       IF ~active.exists
                       THEN Text("NO_ACTIVE_ORDER")
                       ELSE [t |-> "MY_ORDER", dishes |-> active.dishes,
                             total |-> SumPoints(active.dishes),
                             suffix |-> None])>>)
        /\ run' = RunOf("my", user_id, peer_id)
        /\ Advance("ok")

\* the celebration texts compared with >= instead of ==
CelebrationFrom(n_total) ==
    CASE n_total >= 200 -> "TROPHY_DIAMOND"
      [] n_total >= 100 -> "TROPHY_GOLD"
      [] n_total >= 40 -> "GAME_COMPLETE"
      [] OTHER -> None

\* the celebration text appended to the reply of handle_done
Celebration(n_total) ==
    CASE n_total = 40 -> "GAME_COMPLETE"
      [] n_total = 100 -> "TROPHY_GOLD"
      [] n_total = 200 -> "TROPHY_DIAMOND"
      [] OTHER -> None

\* handle_done without clear_active_order
HandleDoneKeepsOrder(user_id, peer_id) ==
    LET rows == fetch_user(users, user_id)
        user == rows[user_id]
        active == active_orders[user_id]
    IN  IF ~active.exists
        THEN /\ users' = rows
             /\ UNCHANGED <<active_orders, last_orders, created>>
             /\ sent' \in Delivery(<<Msg(peer_id, Text("NO_ACTIVE_ORDER"))>>)
             /\ run' = RunOf("done", user_id, peer_id)
             /\ Advance("ok")
        ELSE LET order_crosses == SumPoints(active.dishes)
                 rows2 == finish_order_and_level(rows, user_id, active.tag)
                 n_total == rows2[user_id].total_orders
                 level_changed == rows2[user_id].level # user.level
             IN  /\ users' = rows2
                 /\ last_orders' = record_last_order(last_orders, user_id, active,
                                                     order_crosses)
                 /\ UNCHANGED <<active_orders, created>>
                 /\ sent' \in Delivery(<<Msg(peer_id,
                       [t |-> IF level_changed THEN "DONE_WITH_LEVEL_UP"
                              ELSE "DONE_ORDER",
                        dishes |-> <<>>, total |-> n_total,
                        suffix |-> Celebration(n_total)])>>)
                 /\ run' = [RunOf("done", user_id, peer_id) EXCEPT
                              !.finished = TRUE, !.fin_tag = active.tag,
                              !.fin_crosses = order_crosses]
                 /\ Advance("ok")

\* handle_done without the check for an Active Order
HandleDoneNoCheck(user_id, peer_id) ==
    LET rows == fetch_user(users, user_id)
        user == rows[user_id]
        active == active_orders[user_id]
        order_crosses == SumPoints(active.dishes)
        rows2 == finish_order_and_level(rows, user_id, active.tag)
        n_total == rows2[user_id].total_orders
        level_changed == rows2[user_id].level # user.level
    IN  /\ users' = rows2
        /\ last_orders' = record_last_order(last_orders, user_id, active,
                                            order_crosses)
        /\ active_orders' = clear_active_order(active_orders, user_id)
        /\ UNCHANGED created
        /\ sent' \in Delivery(<<Msg(peer_id,
              [t |-> IF level_changed THEN "DONE_WITH_LEVEL_UP"
                     ELSE "DONE_ORDER",
               dishes |-> <<>>, total |-> n_total,
               suffix |-> Celebration(n_total)])>>)
        /\ run' = [RunOf("done", user_id, peer_id) EXCEPT
                     !.finished = TRUE, !.fin_tag = active.tag,
                     !.fin_crosses = order_crosses]
        /\ Advance("ok")

\* handle_done
HandleDone(user_id, peer_id) ==
    LET rows == fetch_user(users, user_id)
        user == rows[user_id]
        active == active_orders[user_id]
    IN  IF ~active.exists
        THEN /\ users' = rows
             /\ UNCHANGED <<active_orders, last_orders, created>>
             /\ sent' \in Delivery(<<Msg(peer_id, Text("NO_ACTIVE_ORDER"))>>)
             /\ run' = RunOf("done", user_id, peer_id)
             /\ Advance("ok")
        ELSE LET order_crosses == SumPoints(active.dishes)
                 rows2 == finish_order_and_level(rows, user_id, active.tag)
                 n_total == rows2[user_id].total_orders
                 level_changed == rows2[user_id].level # user.level
             IN  /\ users' = rows2
                 /\ last_orders' = record_last_order(last_orders, user_id, active,
                                                     order_crosses)
                 /\ active_orders' = clear_active_order(active_orders, user_id)
                 /\ UNCHANGED created
                 /\ sent' \in Delivery(<<Msg(peer_id,
                       [t |-> IF level_changed THEN "DONE_WITH_LEVEL_UP"
                              ELSE "DONE_ORDER",
                        dishes |-> <<>>, total |-> n_total,
                        suffix |-> Celebration(n_total)])>>)
                 /\ run' = [RunOf("done", user_id, peer_id) EXCEPT
                              !.finished = TRUE, !.fin_tag = active.tag,
                              !.fin_crosses = order_crosses]
                 /\ Advance("ok")

\* handle_start that writes the user's row anew
HandleStartNewRow(user_id, peer_id) ==
    /\ users' = [users EXCEPT ![user_id] = [NoUserRow EXCEPT !.exists = TRUE]]
    /\ UNCHANGED <<active_orders, last_orders, created>>
    /\ sent' \in Delivery(<<Msg(peer_id, Text("HELLO")),
                            Msg(peer_id, Text("COMMANDS")),
                            Msg(peer_id, Text("SELECT_ACTION"))>>)
    /\ run' = RunOf("start", user_id, peer_id)
    /\ Advance("ok")

\* handle_start
HandleStart(user_id, peer_id) ==
    /\ users' = fetch_user(users, user_id)
    /\ UNCHANGED <<active_orders, last_orders, created>>
    /\ sent' \in Delivery(<<Msg(peer_id, Text("HELLO")),
                            Msg(peer_id, Text("COMMANDS")),
                            Msg(peer_id, Text("SELECT_ACTION"))>>)
    /\ run' = RunOf("start", user_id, peer_id)
    /\ Advance("ok")

\* handle_top.  send_message never raises, so the except branches that would
\* send TOP_DM_FAIL are never taken.
HandleTop(user_id, peer_id) ==
    /\ UNCHANGED <<users, active_orders, last_orders, created>>
    /\ run' = RunOf("top", user_id, peer_id)
    /\ IF ~is_admin(user_id)
       THEN sent' \in Delivery(<<Msg(peer_id, Text("ADMIN_ONLY"))>>)
       ELSE \E q \in StatsRows(users) :
              LET body == IF q = <<>> THEN Text("EMPTY_DB")
                          ELSE [t |-> "STATS", dishes |-> RowsText(users, q),
                                total |-> 0, suffix |-> None]
              IN  sent' \in Delivery(
                     IF peer_id # user_id
                     THEN <<Msg(user_id, body), Msg(peer_id, Text("TOP_SENT_DM"))>>
                     ELSE <<Msg(user_id, body)>>)
    /\ Advance("ok")

\* handle_top10
HandleTop10(user_id, peer_id) ==
    /\ UNCHANGED <<users, active_orders, last_orders, created>>
    /\ run' = RunOf("top10", user_id, peer_id)
    /\ IF ~is_admin(user_id)
       THEN sent' \in Delivery(<<Msg(peer_id, Text("ADMIN_ONLY"))>>)
       ELSE \E q \in StatsRows(users) :
              sent' \in Delivery(<<Msg(peer_id,
                 IF q = <<>> THEN Text("NO_PLAYERS_IN_RATING")
                 ELSE [t |-> "TOP10",
                       dishes |-> RowsText(users, SubSeq(q, 1, Min(Len(q), TOP10_LIMIT))),
                       total |-> 0, suffix |-> None])>>)
    /\ Advance("ok")

\* handle_reset without the admin check
HandleResetNoCheck(user_id, peer_id) ==
    /\ run' = RunOf("reset", user_id, peer_id)
    /\ users' = [u \in UserIds |-> NoUserRow]
    /\ active_orders' = [u \in UserIds |-> NoOrder]
    /\ last_orders' = [u \in UserIds |-> NoLastOrder]
    /\ created' = [u \in UserIds |-> <<>>]
    /\ sent' \in Delivery(<<Msg(peer_id, Text("RESET_SUCCESS"))>>)
    /\ Advance("ok")

\* handle_reset: the wipe of all persisted user and order state
HandleReset(user_id, peer_id) ==
    /\ run' = RunOf("reset", user_id, peer_id)
    /\ IF ~is_admin(user_id)
       THEN /\ UNCHANGED <<users, active_orders, last_orders, created>>
            /\ sent' \in Delivery(<<Msg(peer_id, Text("ADMIN_ONLY"))>>)
       ELSE /\ users' = [u \in UserIds |-> NoUserRow]
            /\ active_orders' = [u \in UserIds |-> NoOrder]
            /\ last_orders' = [u \in UserIds |-> NoLastOrder]
            /\ created' = [u \in UserIds |-> <<>>]
            /\ sent' \in Delivery(<<Msg(peer_id, Text("RESET_SUCCESS"))>>)
    /\ Advance("ok")

----------------------------------------------------------------------------
(* Dispatch of one event of the batch *)

Peers == UserIds \cup Chats

DispatchNew ==
    \E u \in UserIds, p \in Peers : Routed("new", u, p) /\ HandleNew(u, p)

DispatchMy ==
    \E u \in UserIds, p \in Peers : Routed("my", u, p) /\ HandleMy(u, p)

\* an order is completed only while the user has fewer than MaxOrders
DispatchDone ==
    \E u \in UserIds, p \in Peers :
        /\ Routed("done", u, p)
        /\ users[u].total_orders < MaxOrders \/ ~active_orders[u].exists
        /\ HandleDone(u, p)

DispatchStart ==
    \E u \in UserIds, p \in Peers : Routed("start", u, p) /\ HandleStart(u, p)

DispatchTop ==
    \E u \in UserIds, p \in Peers : Routed("top", u, p) /\ HandleTop(u, p)

DispatchTop10 ==
    \E u \in UserIds, p \in Peers : Routed("top10", u, p) /\ HandleTop10(u, p)

DispatchReset ==
    \E u \in UserIds, p \in Peers : Routed("reset", u, p) /\ HandleReset(u, p)

\* an unknown /command: the fixed reply
DispatchUnknown ==
    \E u \in UserIds, p \in Peers :
        /\ Routed("unknown", u, p)
        /\ UNCHANGED <<users, active_orders, last_orders, created>>
        /\ sent' \in Delivery(<<Msg(p, Text("UNKNOWN_COMMAND"))>>)
        /\ run' = RunOf("unknown", u, p)
        /\ Advance("ok")

\* plain text: ignored
DispatchIgnored ==
    \E u \in UserIds, p \in Peers :
        /\ Routed("ignored", u, p)
        /\ UNCHANGED <<users, active_orders, last_orders, created>>
        /\ sent' = <<>>
        /\ run' = RunOf("ignored", u, p)
        /\ Advance("ok")

\* an event the loop passes over before routing: not a message_new, an
\* empty text, ids that are not ints, a destination that is not allowed
DispatchSkip ==
    \E u \in UserIds, p \in Peers :
        /\ Routed("skip", u, p)
        /\ UNCHANGED <<users, active_orders, last_orders, created>>
        /\ sent' = <<>>
        /\ run' = RunOf("skip", u, p)
        /\ Advance("ok")

\* the handlers that open the store
UsesStore(h, user_id) ==
    \/ h \in {"new", "my", "done", "start"}
    \/ h \in {"top", "top10", "reset"} /\ is_admin(user_id)

\* A handler whose store access raises: asyncio.run(handle_...) is not inside
\* any try, so the exception leaves longpoll_loop.
HandlerRaises ==
    \E u \in UserIds, p \in Peers, h \in {"new", "my", "done", "start", "top", "top10", "reset"} :
        /\ Routed(h, u, p)
        /\ UsesStore(h, u)
        /\ UNCHANGED <<users, active_orders, last_orders, created>>
        /\ sent' = <<>>
        /\ run' = [RunOf(h, u, p) EXCEPT !.raised = TRUE]
        /\ Advance("raise")

----------------------------------------------------------------------------
(* The ingestion loop: longpoll_loop *)

\* what groups.getLongPollServer answers: a server and key, and a ts
Sessions == {<<"s1", "k1">>, <<"s2", "k2">>}
\* the resumption tokens the remote hands out
TsValues == {500, 501}

\* a remote that keeps to one session and one token
OneSession == {<<"s1", "k1">>}
OneToken == {500}

\* the values of "failed" in a response
FailedCodes == {1, 2, 3}

NoReq == <<"", "", 0>>

\* time.sleep(3) before the triple is fetched again
RECONNECT_SLEEP == 3
\* time.sleep(5) after a fetch that raised
FETCH_FAILED_SLEEP == 5

\* What an iteration did: the kind of response, its "failed" code and ts,
\* whether get_longpoll_server was called ("none", "ok", "raised") and the
\* triple it returned, and the sleeps made.
NoLast == [kind |-> "none", code |-> 0, has_ts |-> FALSE, resp_ts |-> 0,
           fetch |-> "none", triple |-> NoReq, sleeps |-> <<>>]

\* get_longpoll_server before the loop
StartOk(sessions, tokens) ==
    /\ pc = "start"
    /\ \E sk \in sessions, t \in tokens :
         /\ server' = sk[1] /\ key' = sk[2] /\ ts' = t
    /\ pc' = "poll"
    /\ last' = [NoLast EXCEPT !.kind = "start", !.fetch = "ok",
                              !.triple = <<server', key', ts'>>]
    /\ UNCHANGED <<req, updates, probe, inflight>>
    /\ UNCHANGED <<cfgVars, dbVars, obsVars>>

\* get_longpoll_server before the loop raises: the process ends at startup
StartRaise ==
    /\ pc = "start"
    /\ pc' = "terminated"
    /\ last' = [NoLast EXCEPT !.kind = "start", !.fetch = "raised"]
    /\ UNCHANGED <<server, key, ts, req, updates, probe, inflight>>
    /\ UNCHANGED <<cfgVars, dbVars, obsVars>>

\* the a_check request of an iteration, built from the cursor (lines 570-571)
Request ==
    /\ pc = "poll"
    /\ req' = <<server, key, ts>>
    /\ pc' = "wait"
    /\ run' = NoRun
    /\ sent' = <<>>
    /\ UNCHANGED <<server, key, ts, last, updates, created, probe, inflight>>
    /\ UNCHANGED <<cfgVars, dbVars>>

\* what every way of handling the response leaves alone
Response ==
    /\ pc = "wait"
    /\ req' = NoReq
    /\ UNCHANGED <<probe, inflight>>
    /\ UNCHANGED <<cfgVars, dbVars, obsVars>>

\* a response without "failed": ts advances, the events are iterated
PollOk(tokens) ==
    /\ Response
    /\ \E has_ts \in BOOLEAN, t \in tokens, n \in 0..MaxBatch :
         /\ ts' = IF has_ts THEN t ELSE ts
         /\ updates' = [n |-> n, i |-> 0]
         /\ pc' = IF n = 0 THEN "poll" ELSE "dispatch"
         /\ last' = [NoLast EXCEPT !.kind = "ok", !.has_ts = has_ts,
                                   !.resp_ts = IF has_ts THEN t ELSE 0]
    /\ UNCHANGED <<server, key>>

\* failed = 1 handled like the other codes
PollFailedTsRefetches(tokens) ==
    /\ Response
    /\ \E has_ts \in BOOLEAN, t \in tokens, sk \in Sessions :
         /\ server' = sk[1] /\ key' = sk[2] /\ ts' = t
         /\ last' = [NoLast EXCEPT !.kind = "failed", !.code = 1, !.has_ts = has_ts,
                                   !.resp_ts = IF has_ts THEN t ELSE 0,
                                   !.fetch = "ok", !.triple = <<sk[1], sk[2], t>>]
    /\ pc' = "poll"
    /\ updates' = [n |-> 0, i |-> 0]

\* failed = 1: the ts of the response, when it has one, is adopted
PollFailedTs(tokens) ==
    /\ Response
    /\ \E has_ts \in BOOLEAN, t \in tokens :
         /\ ts' = IF has_ts THEN t ELSE ts
         /\ last' = [NoLast EXCEPT !.kind = "failed", !.code = 1, !.has_ts = has_ts,
                                   !.resp_ts = IF has_ts THEN t ELSE 0]
    /\ pc' = "poll"
    /\ updates' = [n |-> 0, i |-> 0]
    /\ UNCHANGED <<server, key>>

\* failed other than 1 where only the ts of the fetched triple is kept
PollFailedRefetchTsOnly(sessions, tokens) ==
    /\ Response
    /\ \E code \in FailedCodes \ {1}, sk \in sessions, t \in tokens :
         /\ ts' = t
         /\ last' = [NoLast EXCEPT !.kind = "failed", !.code = code, !.fetch = "ok",
                                   !.triple = <<sk[1], sk[2], t>>]
    /\ pc' = "poll"
    /\ updates' = [n |-> 0, i |-> 0]
    /\ UNCHANGED <<server, key>>

\* failed other than 1: the triple is fetched again
PollFailedRefetch(sessions, tokens) ==
    /\ Response
    /\ \E code \in FailedCodes \ {1}, sk \in sessions, t \in tokens :
         /\ server' = sk[1] /\ key' = sk[2] /\ ts' = t
         /\ last' = [NoLast EXCEPT !.kind = "failed", !.code = code, !.fetch = "ok",
                                   !.triple = <<sk[1], sk[2], t>>]
    /\ pc' = "poll"
    /\ updates' = [n |-> 0, i |-> 0]

\* failed other than 1 and get_longpoll_server raises: line 595 is not
\* inside a try, the exception leaves longpoll_loop
PollFailedRefetchRaises ==
    /\ Response
    /\ \E code \in FailedCodes \ {1} :
         last' = [NoLast EXCEPT !.kind = "failed", !.code = code, !.fetch = "raised"]
    /\ pc' = "terminated"
    /\ updates' = [n |-> 0, i |-> 0]
    /\ UNCHANGED <<server, key, ts>>

\* a failed request retried after the sleep without a new triple
PollErrorNoFetch(sessions, tokens) ==
    /\ Response
    /\ \E kind \in {"network", "not_json"} :
         last' = [NoLast EXCEPT !.kind = kind, !.sleeps = <<RECONNECT_SLEEP>>]
    /\ pc' = "poll"
    /\ updates' = [n |-> 0, i |-> 0]
    /\ UNCHANGED <<server, key, ts>>

\* the request fails (requests.RequestException) or the body is not JSON:
\* sleep 3, then the triple is fetched again
PollErrorRefetch(sessions, tokens) ==
    /\ Response
    /\ \E kind \in {"network", "not_json"}, sk \in sessions, t \in tokens :
         /\ server' = sk[1] /\ key' = sk[2] /\ ts' = t
         /\ last' = [NoLast EXCEPT !.kind = kind, !.fetch = "ok",
                                   !.triple = <<sk[1], sk[2], t>>,
                                   !.sleeps = <<RECONNECT_SLEEP>>]
    /\ pc' = "poll"
    /\ updates' = [n |-> 0, i |-> 0]

\* ... and get_longpoll_server raises too: logged, sleep 5, the old cursor stays
PollErrorRefetchFails ==
    /\ Response
    /\ \E kind \in {"network", "not_json"} :
         last' = [NoLast EXCEPT !.kind = kind, !.fetch = "raised",
                                !.sleeps = <<RECONNECT_SLEEP, FETCH_FAILED_SLEEP>>]
    /\ pc' = "poll"
    /\ updates' = [n |-> 0, i |-> 0]
    /\ UNCHANGED <<server, key, ts>>

\* the body is JSON but not an object: "failed" in data or data.get raises
\* TypeError or AttributeError, which nothing catches
PollNotObject ==
    /\ Response
    /\ last' = [NoLast EXCEPT !.kind = "not_object"]
    /\ pc' = "terminated"
    /\ updates' = [n |-> 0, i |-> 0]
    /\ UNCHANGED <<server, key, ts>>

----------------------------------------------------------------------------
(* The program *)

NoMsg == [type |-> "none", text |-> <<>>, from_id |-> 0, peer_id |-> 0,
          from_int |-> FALSE, peer_int |-> FALSE, payload |-> NoPayload]

NoProbe == [fn |-> "none", level |-> 0, kind |-> "none", arg |-> <<>>, out |-> <<>>,
            msg |-> NoMsg]

\* the loops of a deployment with two ingestion loops on one store
Loops == {1, 2}

\* a loop between two events: no handler is running
Idle == [h |-> "idle", at |-> "idle", uid |-> 0, peer |-> 0, user |-> NoUserRow,
         active |-> NoOrder, last_order |-> NoLastOrder, n_total |-> 0,
         level_changed |-> FALSE, handled |-> 0, saved |-> 0]

NoInflight == [l \in Loops |-> Idle]

Init ==
    /\ DISHES_BY_LEVEL = StandardDishes
    /\ SPECIAL_ORDERS \in SpecialConfigs
    /\ ALLOWED_PEER_ID_INT = {}
    /\ pc = "start"
    /\ server = "" /\ key = "" /\ ts = 0
    /\ req = NoReq
    /\ last = NoLast
    /\ updates = [n |-> 0, i |-> 0]
    /\ users = [u \in UserIds |-> NoUserRow]
    /\ active_orders = [u \in UserIds |-> NoOrder]
    /\ last_orders = [u \in UserIds |-> NoLastOrder]
    /\ run = NoRun
    /\ sent = <<>>
    /\ created = [u \in UserIds |-> <<>>]
    /\ probe = NoProbe
    /\ inflight = NoInflight

\* what longpoll_loop does whatever the response: the request, and the
\* failures that need no cursor value
LoopSteps ==
    \/ StartRaise
    \/ Request
    \/ PollFailedRefetchRaises \/ PollErrorRefetchFails \/ PollNotObject

\* the events that reach a handler or the unknown-command reply
Dispatch ==
    \/ DispatchNew \/ DispatchMy \/ DispatchDone \/ DispatchStart
    \/ DispatchTop \/ DispatchTop10 \/ DispatchReset
    \/ DispatchUnknown \/ DispatchIgnored \/ DispatchSkip
    \/ HandlerRaises

\* The bot against a remote that keeps to one session and one token: every
\* command of the player and of the admin.
Next ==
    \/ StartOk(OneSession, OneToken)
    \/ PollOk(OneToken) \/ PollFailedTs(OneToken)
    \/ PollFailedRefetch(OneSession, OneToken)
    \/ PollErrorRefetch(OneSession, OneToken)
    \/ LoopSteps
    \/ Dispatch

Spec == Init /\ [][Next]_vars

\* The bot against a remote that hands out every session and token, with
\* events that do not reach the store: unknown commands, plain text, events
\* passed over, and handlers that raise.
LoopNext ==
    \/ StartOk(Sessions, TsValues)
    \/ PollOk(TsValues) \/ PollFailedTs(TsValues)
    \/ PollFailedRefetch(Sessions, TsValues)
    \/ PollErrorRefetch(Sessions, TsValues)
    \/ LoopSteps
    \/ DispatchUnknown \/ DispatchIgnored \/ DispatchSkip
    \/ HandlerRaises

LoopSpec == Init /\ [][LoopNext]_vars

----------------------------------------------------------------------------
(* The order generator and the half_new_order branch on every catalog *)

\* the dishes catalogs are built from, in the order the lists hold them
Menu == << <<"a", 1>>, <<"b", 1>>, <<"c", 4>>, <<"a", 4>> >>

\* where a catalog lists a dish: nowhere, or at one level
Placements == {{}} \cup {{lv} : lv \in 0..TOP_DISH_LEVEL}

\* the catalog that lists each dish d at the level in f[d]; a level without
\* dishes is not a key of the catalog
Catalog(f) ==
    [lv \in UNION {f[d] : d \in Range(Menu)} |->
        SelectSeq(Menu, LAMBDA d : lv \in f[d])]

Catalogs == {Catalog(f) : f \in [Range(Menu) -> Placements]}

\* the table that reserves the first order for the half_new_order directive
HalfFirst == (1 :> "dirty_plate")

GenInit ==
    /\ DISHES_BY_LEVEL \in Catalogs
    /\ SPECIAL_ORDERS = HalfFirst
    /\ ALLOWED_PEER_ID_INT = {}
    /\ pc = "start"
    /\ server = "" /\ key = "" /\ ts = 0
    /\ req = NoReq
    /\ last = NoLast
    /\ updates = [n |-> 0, i |-> 0]
    /\ users = [u \in UserIds |-> NoUserRow]
    /\ active_orders = [u \in UserIds |-> NoOrder]
    /\ last_orders = [u \in UserIds |-> NoLastOrder]
    /\ run = NoRun
    /\ sent = <<>>
    /\ created = [u \in UserIds |-> <<>>]
    /\ probe = NoProbe
    /\ inflight = NoInflight

\* generate_regular_order(level) is called
CallGenerate ==
    /\ \E level \in 0..MaxLevelArg :
         \E g \in generate_regular_order(DISHES_BY_LEVEL, level) :
            probe' = [fn |-> "generate_regular_order", level |-> level,
                      kind |-> g.kind, arg |-> <<>>, out |-> g.take,
                      msg |-> NoMsg]
    /\ UNCHANGED <<cfgVars, loopVars, dbVars, obsVars, inflight>>

\* _vk_new_order_logic is called for a user of some level whose first order
\* is due: the half_new_order branch
CallNewOrderLogic ==
    /\ \E level \in 0..MaxLevelArg :
         \E o \in VkNewOrderLogic(DISHES_BY_LEVEL, SPECIAL_ORDERS,
                                  [NoUserRow EXCEPT !.exists = TRUE, !.level = level],
                                  NoLastOrder) :
            probe' = [fn |-> "_vk_new_order_logic", level |-> level,
                      kind |-> o.kind, arg |-> o.generated, out |-> o.dishes,
                      msg |-> NoMsg]
    /\ UNCHANGED <<cfgVars, loopVars, dbVars, obsVars, inflight>>

GenNext == CallGenerate \/ CallNewOrderLogic

GenSpec == GenInit /\ [][GenNext]_vars

----------------------------------------------------------------------------
(* Properties *)

\* C1: a "new" command handled while the user has an Active Order is
\* answered with the already-has-an-order reply and changes nothing in the
\* store: the Active Order, the completed-order count, the level and the
\* flags of every user stay as they were (a user has one Active Order slot).
NewWhileActiveIsRejected ==
    [][\A u \in UserIds :
         (/\ pc = "dispatch" /\ run'.h = "new" /\ run'.uid = u /\ ~run'.raised
          /\ active_orders[u].exists)
         => /\ active_orders' = active_orders
            /\ users' = users
            /\ last_orders' = last_orders
            /\ Len(sent') = 1
            /\ sent'[1].text.t = "ALREADY_HAS_ORDER"
            /\ sent'[1].peer = run'.peer]_vars

\* a "new" command was just rejected for a user with an Active Order
NewRejectedReached ==
    /\ run.h = "new" /\ ~run.raised
    /\ active_orders[run.uid].exists
    /\ Len(sent) = 1 /\ sent[1].text.t = "ALREADY_HAS_ORDER"

\* C2: the loop never ends after it has started polling: it ends only when
\* the fetch of the triple at startup fails.
LoopEndsOnlyAtStartup ==
    pc = "terminated" => last.kind = "start"

\* C3: a response with failed = 1 and a ts makes that ts the resumption
\* token, leaves server and key as they were, calls no fetch of the triple
\* and dispatches no event; the step after it is the next poll request,
\* built from the same server and key and the adopted ts.
FailedOneAdoptsTs ==
    [][/\ (pc = "wait" /\ last'.kind = "failed" /\ last'.code = 1 /\ last'.has_ts)
          => /\ ts' = last'.resp_ts
             /\ server' = server /\ key' = key
             /\ last'.fetch = "none"
             /\ pc' = "poll"
             /\ run' = run /\ sent' = sent /\ updates'.n = 0
       /\ (pc = "poll" /\ last.kind = "failed" /\ last.code = 1 /\ last.has_ts)
          => /\ pc' = "wait"
             /\ req' = <<server, key, last.resp_ts>>
             /\ run = NoRun]_vars

\* the poll after a failed = 1 response carries the ts of that response
FailedOneNextPollReached ==
    /\ pc = "wait"
    /\ last.kind = "failed" /\ last.code = 1 /\ last.has_ts
    /\ req = <<server, key, last.resp_ts>>

\* C4: after a response with failed = 2 or 3 the loop goes on to a poll only
\* with the triple get_longpoll_server returned, all three values of it, and
\* the step after it is the poll request built from that triple.
FailedOtherRefetchesTriple ==
    [][/\ (pc = "wait" /\ last'.kind = "failed" /\ last'.code \in {2, 3})
          => /\ last'.fetch \in {"ok", "raised"}
             /\ pc' # "dispatch"
             /\ pc' = "poll" => /\ last'.fetch = "ok"
                                /\ <<server', key', ts'>> = last'.triple
             /\ run' = run /\ sent' = sent
       /\ (pc = "poll" /\ last.kind = "failed" /\ last.code \in {2, 3})
          => /\ pc' = "wait"
             /\ req' = last.triple]_vars

\* the poll after a failed = 2 response is built from the refetched triple
FailedTwoNextPollReached ==
    /\ pc = "wait"
    /\ last.kind = "failed" /\ last.code = 2 /\ last.fetch = "ok"
    /\ req = last.triple

\* C5: a response without "failed" that carries a ts makes that ts the
\* resumption token; its events are dispatched one at a time in array order
\* (the event at position i + 1 after i events), and a poll request is built
\* only when every event of the batch has been dispatched.
OkResponseDispatchesInOrder ==
    [][/\ (pc = "wait" /\ last'.kind = "ok")
          => /\ last'.has_ts => ts' = last'.resp_ts
             /\ server' = server /\ key' = key
             /\ updates'.i = 0
             /\ pc' = (IF updates'.n > 0 THEN "dispatch" ELSE "poll")
       /\ pc = "dispatch"
          => /\ last.kind = "ok"
             /\ updates.i < updates.n
             /\ run'.pos = updates.i + 1
             /\ updates' = [updates EXCEPT !.i = @ + 1]
             /\ <<server', key', ts'>> = <<server, key, ts>>
             /\ pc' = "poll" => updates'.i = updates'.n
             /\ pc' = "dispatch" => updates'.i < updates'.n
       /\ pc' = "wait"
          => /\ pc = "poll"
             /\ updates.i = updates.n
             /\ req' = <<server, key, ts>>]_vars

\* every event of a full batch was dispatched, the last one last, and the
\* token is the ts of the response
FullBatchDispatchedReached ==
    /\ pc = "poll"
    /\ last.kind = "ok" /\ last.has_ts /\ ts = last.resp_ts
    /\ updates.n = MaxBatch /\ updates.i = updates.n
    /\ run.pos = updates.n

\* C6: after a request that failed or a body that is not JSON the loop
\* sleeps RECONNECT_SLEEP and calls get_longpoll_server before the next
\* poll request, which is built from the triple it returned or, if it
\* raised, from the old cursor; no event is dispatched.
PollErrorBacksOffAndFetches ==
    [][/\ (pc = "wait" /\ last'.kind \in {"network", "not_json"})
          => /\ last'.sleeps # <<>> /\ Head(last'.sleeps) = RECONNECT_SLEEP
             /\ last'.fetch \in {"ok", "raised"}
             /\ last'.fetch = "ok" => <<server', key', ts'>> = last'.triple
             /\ last'.fetch = "raised" => <<server', key', ts'>> = <<server, key, ts>>
             /\ pc' = "poll"
             /\ run' = run /\ sent' = sent /\ updates'.n = 0
       /\ (pc = "poll" /\ last.kind \in {"network", "not_json"})
          => /\ pc' = "wait"
             /\ last.fetch # "none"
             /\ req' = <<server, key, ts>>
             /\ run = NoRun]_vars

\* the poll after a body that was not JSON is built from the fetched triple
NotJsonNextPollReached ==
    /\ pc = "wait"
    /\ last.kind = "not_json" /\ last.fetch = "ok"
    /\ last.sleeps = <<RECONNECT_SLEEP>>
    /\ req = last.triple

\* C7: a "new" command for a user without an Active Order whose Last
\* Completed Order carries a tag does not evaluate check_special_order and
\* stores an untagged order of 3 catalog dishes; and of the last two orders
\* created for a user since the store was last wiped, one is untagged.
SuppressionAfterTagged ==
    [][/\ \A u \in UserIds :
            (/\ pc = "dispatch" /\ run'.h = "new" /\ run'.uid = u /\ ~run'.raised
             /\ ~active_orders[u].exists
             /\ last_orders[u].exists /\ last_orders[u].tag # None)
            => /\ ~run'.checked
               /\ active_orders'[u].exists
               /\ active_orders'[u].tag = None
               /\ Len(active_orders'[u].dishes) = 3
               /\ \A i \in 1..3 :
                     \E lv \in DOMAIN DISHES_BY_LEVEL :
                        active_orders'[u].dishes[i] \in Range(DISHES_BY_LEVEL[lv])
       /\ \A u \in UserIds :
            Len(created'[u]) = 2 => (created'[u][1] = None \/ created'[u][2] = None)]_vars

\* an order was just created at an index reserved for a directive whose flag
\* is not set, and it is untagged because the Last Completed Order is tagged
SuppressedAtReservedIndexReached ==
    /\ run.h = "new" /\ ~run.raised /\ ~run.checked
    /\ Len(sent) = 1 /\ sent[1].text.t = "NEW_ORDER_MESSAGE"
    /\ last_orders[run.uid].exists /\ last_orders[run.uid].tag # None
    /\ active_orders[run.uid].exists /\ active_orders[run.uid].tag = None
    /\ order_index(users[run.uid].total_orders) \in DOMAIN SPECIAL_ORDERS
    /\ ~users[run.uid].flags[SPECIAL_ORDERS[order_index(users[run.uid].total_orders)]]

\* C8: when the directive selected for a "new" command is of type
\* double_previous, the order stored has the dish names of the Last
\* Completed Order in the same order, each with twice its points, and the
\* tag of the directive; without a Last Completed Order the order stored is
\* untagged and has 3 dishes.
DoublePreviousDoubles ==
    [][\A u \in UserIds :
         (/\ pc = "dispatch" /\ run'.h = "new" /\ run'.uid = u /\ ~run'.raised
          /\ ~active_orders[u].exists
          /\ run'.directive # None
          /\ SPECIAL_TYPE(run'.directive) = "double_previous")
         => /\ active_orders'[u].exists
            /\ IF last_orders[u].exists
               THEN /\ active_orders'[u].tag = run'.directive
                    /\ Len(active_orders'[u].dishes) = Len(last_orders[u].dishes)
                    /\ \A i \in 1..Len(last_orders[u].dishes) :
                          /\ active_orders'[u].dishes[i][1] = last_orders[u].dishes[i][1]
                          /\ active_orders'[u].dishes[i][2] = 2 * last_orders[u].dishes[i][2]
               ELSE /\ active_orders'[u].tag = None
                    /\ Len(active_orders'[u].dishes) = 3
                    /\ Distinct(active_orders'[u].dishes)]_vars

\* a doubled order was just stored
DoubledOrderReached ==
    /\ run.h = "new" /\ ~run.raised
    /\ run.directive # None /\ SPECIAL_TYPE(run.directive) = "double_previous"
    /\ last_orders[run.uid].exists
    /\ active_orders[run.uid].exists /\ active_orders[run.uid].tag = run.directive
    /\ active_orders[run.uid].dishes = DoubledDishes(last_orders[run.uid].dishes)
    /\ Len(active_orders[run.uid].dishes) = 3

\* C9: the order the half_new_order branch stores sums to
\* floor(total / 2) of the generated order, and each of its points is >= 1.
HalfOrderSumsToHalf ==
    (probe.fn = "_vk_new_order_logic" /\ probe.kind = "ok")
    => /\ SumPoints(probe.out) = SumPoints(probe.arg) \div 2
       /\ \A i \in 1..Len(probe.out) : probe.out[i][2] >= 1

GenerateTerminates ==
    probe.fn = "generate_regular_order" => probe.kind # "hang"

\* C12: a flag of a user that is set stays set over every step of the bot
\* other than the reset of an admin; in particular over every "new" and
\* every "done".
FlagsNeverUnset ==
    [][~(pc = "dispatch" /\ run'.h = "reset" /\ is_admin(run'.uid))
       => \A u \in UserIds : \A t \in Tags :
             users[u].flags[t] => users'[u].flags[t]]_vars

\* an untagged order was just completed by a user who has a flag set
FlagKeptReached ==
    /\ run.h = "done" /\ run.finished /\ run.fin_tag = None
    /\ \E t \in Tags : users[run.uid].flags[t]

\* C13: a "done" command handled for a user with an Active Order gives the
\* progression update the sum of the points of that order and its tag, makes
\* the completed-order count one more than it was, records the order as the
\* Last Completed Order and leaves the user without an Active Order.
DoneCompletesOrder ==
    [][\A u \in UserIds :
         (/\ pc = "dispatch" /\ run'.h = "done" /\ run'.uid = u /\ ~run'.raised
          /\ active_orders[u].exists)
         => /\ run'.finished
            /\ run'.fin_crosses = SumPoints(active_orders[u].dishes)
            /\ run'.fin_tag = active_orders[u].tag
            /\ users'[u].total_orders = users[u].total_orders + 1
            /\ active_orders[u].tag \in Tags => users'[u].flags[active_orders[u].tag]
            /\ ~active_orders'[u].exists
            /\ last_orders'[u].exists
            /\ last_orders'[u].dishes = active_orders[u].dishes
            /\ last_orders'[u].tag = active_orders[u].tag]_vars

\* a user's first order, of 3 dishes, was just completed: the count is 1
FirstOrderDoneReached ==
    /\ run.h = "done" /\ run.finished
    /\ users[run.uid].total_orders = 1
    /\ ~active_orders[run.uid].exists
    /\ Len(last_orders[run.uid].dishes) = 3
    /\ run.fin_crosses = SumPoints(last_orders[run.uid].dishes)

\* C14: a "done" command handled for a user without an Active Order sends
\* the no-active-order reply and nothing else; the progression update is not
\* run, and the count, level and flags of the user, the Last Completed
\* Orders and the Active Orders stay as they were.
DoneWithoutOrderIsSoft ==
    [][\A u \in UserIds :
         (/\ pc = "dispatch" /\ run'.h = "done" /\ run'.uid = u /\ ~run'.raised
          /\ ~active_orders[u].exists)
         => /\ ~run'.finished
            /\ Len(sent') = 1
            /\ sent'[1].text.t = "NO_ACTIVE_ORDER"
            /\ sent'[1].peer = run'.peer
            /\ users'[u].total_orders = users[u].total_orders
            /\ users'[u].level = users[u].level
            /\ users'[u].flags = users[u].flags
            /\ last_orders' = last_orders
            /\ active_orders' = active_orders]_vars

\* a "done" was just refused for a user who has completed orders before
DoneRefusedReached ==
    /\ run.h = "done" /\ ~run.finished /\ ~run.raised
    /\ users[run.uid].total_orders > 0
    /\ ~active_orders[run.uid].exists
    /\ Len(sent) = 1 /\ sent[1].text.t = "NO_ACTIVE_ORDER"

\* C15: the reply to a "new" that stores a regular order lists the dishes
\* stored, with their sum as the total; a "my" command handled while the
\* user has an Active Order replies with the dishes of that order, in the
\* same order and with the same points, and their sum, and changes nothing
\* in the store; without an Active Order it replies no-active-order.
MyOrderEchoesStored ==
    [][\A u \in UserIds :
         /\ (/\ pc = "dispatch" /\ run'.h = "new" /\ run'.uid = u
             /\ Len(sent') = 1 /\ sent'[1].text.t = "NEW_ORDER_MESSAGE")
            => /\ active_orders'[u].exists
               /\ sent'[1].text.dishes = active_orders'[u].dishes
               /\ sent'[1].text.total = SumPoints(active_orders'[u].dishes)
         /\ (pc = "dispatch" /\ run'.h = "my" /\ run'.uid = u /\ ~run'.raised)
            => /\ Len(sent') = 1
               /\ sent'[1].peer = run'.peer
               /\ IF active_orders[u].exists
                  THEN /\ sent'[1].text.t = "MY_ORDER"
                       /\ sent'[1].text.dishes = active_orders[u].dishes
                       /\ sent'[1].text.total = SumPoints(active_orders[u].dishes)
                       /\ users' = users
                       /\ active_orders' = active_orders
                       /\ last_orders' = last_orders
                  ELSE /\ sent'[1].text.t = "NO_ACTIVE_ORDER"
                       /\ active_orders' = active_orders
                       /\ last_orders' = last_orders]_vars

\* a "my" command was just answered with the 3 dishes of an untagged order
MyOrderShownReached ==
    /\ run.h = "my" /\ ~run.raised
    /\ active_orders[run.uid].exists /\ active_orders[run.uid].tag = None
    /\ Len(sent) = 1 /\ sent[1].text.t = "MY_ORDER"
    /\ Len(sent[1].text.dishes) = 3
    /\ sent[1].text.dishes = active_orders[run.uid].dishes

----------------------------------------------------------------------------
(* handle_done at every completed-order count *)

\* a table that reserves no order index
NoSpecialOrders == <<>>

\* the order the user has at hand
StandardOrder == << <<"tea", 2>>, <<"bun", 3>>, <<"pie", 4>> >>

\* The loop is at a one-event batch; user 1 has completed n orders, all of
\* them untagged, and has an Active Order.
DoneInit ==
    /\ DISHES_BY_LEVEL = StandardDishes
    /\ SPECIAL_ORDERS = NoSpecialOrders
    /\ ALLOWED_PEER_ID_INT = {}
    /\ pc = "dispatch"
    /\ server = "s1" /\ key = "k1" /\ ts = 500
    /\ req = NoReq
    /\ last = [NoLast EXCEPT !.kind = "ok"]
    /\ updates = [n |-> 1, i |-> 0]
    /\ \E n \in 0..MaxCount :
         /\ users = [u \in UserIds |->
                       IF u = 1
                       THEN [exists |-> TRUE, total_orders |-> n,
                             level |-> LevelOf(n), flags |-> NoFlags]
                       ELSE NoUserRow]
         /\ last_orders = [u \in UserIds |->
                             IF u = 1 /\ n > 0
                             THEN [exists |-> TRUE, dishes |-> StandardOrder,
                                   crosses |-> SumPoints(StandardOrder), tag |-> None]
                             ELSE NoLastOrder]
         /\ created = [u \in UserIds |->
                         IF u # 1 THEN <<>>
                         ELSE IF n > 0 THEN <<None, None>> ELSE <<None>>]
    /\ active_orders = [u \in UserIds |->
                          IF u = 1
                          THEN [exists |-> TRUE, dishes |-> StandardOrder, tag |-> None]
                          ELSE NoOrder]
    /\ run = NoRun
    /\ sent = <<>>
    /\ probe = NoProbe
    /\ inflight = NoInflight

\* the event is a "done"
DispatchDoneAnyCount ==
    \E u \in UserIds, p \in Peers : Routed("done", u, p) /\ HandleDone(u, p)

DoneSpec == DoneInit /\ [][DispatchDoneAnyCount]_vars

\* C16: the reply to a "done" that completed an order carries the suffix
\* GAME_COMPLETE when the new count is 40, TROPHY_GOLD when it is 100,
\* TROPHY_DIAMOND when it is 200, and no suffix at any other count.
CelebrationAtMilestones ==
    (run.h = "done" /\ run.finished)
    => /\ Len(sent) = 1
       /\ sent[1].text.total = users[run.uid].total_orders
       /\ users[run.uid].total_orders = 40 => sent[1].text.suffix = "GAME_COMPLETE"
       /\ users[run.uid].total_orders = 100 => sent[1].text.suffix = "TROPHY_GOLD"
       /\ users[run.uid].total_orders = 200 => sent[1].text.suffix = "TROPHY_DIAMOND"
       /\ users[run.uid].total_orders \notin {40, 100, 200}
          => sent[1].text.suffix = None

\* the 200th order was just completed
TwoHundredthDoneReached ==
    /\ run.h = "done" /\ run.finished
    /\ users[run.uid].total_orders = 200
    /\ sent[1].text.suffix = "TROPHY_DIAMOND"

----------------------------------------------------------------------------
(* The routing of one event, with and without an allow-list *)

\* the store when the event arrives: empty, user 1 with an Active Order, or
\* user 1 with one completed order
Stores ==
    { [users |-> [u \in UserIds |-> NoUserRow],
       active_orders |-> [u \in UserIds |-> NoOrder],
       last_orders |-> [u \in UserIds |-> NoLastOrder],
       created |-> [u \in UserIds |-> <<>>]],
      [users |-> [u \in UserIds |->
                    IF u = 1 THEN [NoUserRow EXCEPT !.exists = TRUE] ELSE NoUserRow],
       active_orders |-> [u \in UserIds |->
                            IF u = 1
                            THEN [exists |-> TRUE, dishes |-> StandardOrder, tag |-> None]
                            ELSE NoOrder],
       last_orders |-> [u \in UserIds |-> NoLastOrder],
       created |-> [u \in UserIds |-> IF u = 1 THEN <<None>> ELSE <<>>]],
      [users |-> [u \in UserIds |->
                    IF u = 1
                    THEN [exists |-> TRUE, total_orders |-> 1, level |-> LevelOf(1),
                          flags |-> NoFlags]
                    ELSE NoUserRow],
       active_orders |-> [u \in UserIds |-> NoOrder],
       last_orders |-> [u \in UserIds |->
                          IF u = 1
                          THEN [exists |-> TRUE, dishes |-> StandardOrder,
                                crosses |-> SumPoints(StandardOrder), tag |-> None]
                          ELSE NoLastOrder],
       created |-> [u \in UserIds |-> IF u = 1 THEN <<None>> ELSE <<>>]] }

\* The loop is at a one-event batch; the event is any of Messages, the
\* allow-list is configured or not.
RouteInit ==
    /\ DISHES_BY_LEVEL = StandardDishes
    /\ SPECIAL_ORDERS \in SpecialConfigs
    /\ ALLOWED_PEER_ID_INT \in AllowLists
    /\ pc = "dispatch"
    /\ server = "s1" /\ key = "k1" /\ ts = 500
    /\ req = NoReq
    /\ last = [NoLast EXCEPT !.kind = "ok"]
    /\ updates = [n |-> 1, i |-> 0]
    /\ \E st \in Stores :
         /\ users = st.users
         /\ active_orders = st.active_orders
         /\ last_orders = st.last_orders
         /\ created = st.created
    /\ run = NoRun
    /\ sent = <<>>
    /\ \E m \in Messages : probe = [NoProbe EXCEPT !.fn = "event", !.msg = m]
    /\ inflight = NoInflight

RouteSpec == RouteInit /\ [][Dispatch]_vars

\* C17: an event that reaches the routing with no recognised button code:
\* if its text, stripped and lowered, starts with "/" and with no command of
\* the vocabulary, one UNKNOWN_COMMAND reply is sent to its peer and the
\* store is unchanged; if it does not start with "/", nothing is sent and
\* the store is unchanged.
UnknownRepliedPlainIgnored ==
    [][LET m == probe.msg
           text == Lower(Strip(m.text))
       IN  (/\ pc = "dispatch" /\ probe.fn = "event"
            /\ m.type = "message_new" /\ m.from_int /\ m.peer_int
            /\ ALLOWED_PEER_ID_INT = {} \/ m.peer_id \in ALLOWED_PEER_ID_INT
            /\ text # <<>>
            /\ PayloadCmd(m.payload) \notin
                 {<<"n", "e", "w">>, <<"m", "y">>, <<"d", "o", "n", "e">>})
           => /\ (/\ text[1] = "/"
                  /\ \A c \in { <<"/", "n", "e", "w">>, <<"/", "m", "y">>,
                                <<"/", "d", "o", "n", "e">>,
                                <<"/", "s", "t", "a", "r", "t">>,
                                <<"/", "t", "o", "p">>,
                                <<"/", "r", "e", "s", "e", "t">> } :
                        ~StartsWith(text, c))
                 => /\ Len(sent') = 1
                    /\ sent'[1].text.t = "UNKNOWN_COMMAND"
                    /\ sent'[1].peer = m.peer_id
                    /\ UNCHANGED dbVars
              /\ text[1] # "/"
                 => /\ sent' = <<>>
                    /\ UNCHANGED dbVars]_vars

\* the event "/foo" was just answered with the unknown-command reply
UnknownRepliedReached ==
    /\ probe.fn = "event" /\ probe.msg.text = <<"/", "f", "o", "o">>
    /\ run.h = "unknown"
    /\ Len(sent) = 1 /\ sent[1].text.t = "UNKNOWN_COMMAND"

\* C18: with an allow-list configured, an event whose peer_id is not the
\* allowed one is passed over whatever it carries: no handler runs, nothing
\* is sent and the store is unchanged.
DisallowedPeerDropped ==
    [][(/\ pc = "dispatch" /\ probe.fn = "event"
        /\ ALLOWED_PEER_ID_INT # {}
        /\ probe.msg.peer_id \notin ALLOWED_PEER_ID_INT)
       => /\ run'.h = "skip"
          /\ sent' = <<>>
          /\ UNCHANGED dbVars]_vars

\* a "/new" in a private conversation was just passed over because the
\* allow-list names the group conversation
DroppedNewReached ==
    /\ ALLOWED_PEER_ID_INT = {100}
    /\ probe.fn = "event"
    /\ probe.msg.type = "message_new" /\ probe.msg.from_int /\ probe.msg.peer_int
    /\ Strip(probe.msg.text) = <<"/", "n", "e", "w">>
    /\ probe.msg.peer_id = 1
    /\ run.h = "skip"
    /\ sent = <<>>

\* C19: a top, top10 or reset command from a caller who is not an admin
\* sends the ADMIN_ONLY notice to the peer of the command and nothing else,
\* and leaves the store as it was.
AdminOnlyForOthers ==
    [][(/\ pc = "dispatch" /\ run'.h \in {"top", "top10", "reset"}
        /\ run'.uid \notin AdminIds)
       => /\ Len(sent') = 1
          /\ sent'[1].text.t = "ADMIN_ONLY"
          /\ sent'[1].peer = run'.peer
          /\ ~run'.raised
          /\ UNCHANGED dbVars]_vars

\* the player's reset was just refused and the player's orders are kept
ResetRefusedReached ==
    /\ run.h = "reset" /\ run.uid \notin AdminIds
    /\ Len(sent) = 1 /\ sent[1].text.t = "ADMIN_ONLY"
    /\ users[run.uid].total_orders > 0
    /\ active_orders[run.uid].exists

\* C20: when an admin's top command comes from a group conversation, the
\* group is sent the acknowledgment TOP_SENT_DM if the private send of the
\* statistics went through and the failure notice TOP_DM_FAIL if it did not.
TopGroupAckOrFailure ==
    (/\ run.h = "top" /\ run.uid \in AdminIds /\ ~run.raised
     /\ run.peer # run.uid)
    => /\ Len(sent) = 2
       /\ sent[1].peer = run.uid
       /\ sent[2].peer = run.peer
       /\ sent[1].ok => sent[2].text.t = "TOP_SENT_DM"
       /\ ~sent[1].ok => sent[2].text.t = "TOP_DM_FAIL"

----------------------------------------------------------------------------
(* Two ingestion loops on one store.  Each loop runs handle_new and         *)
(* handle_done as the source writes them; a step is one store operation     *)
(* (one await on the database), so the operations of the two loops          *)
(* interleave.  The cursors of the loops are not followed.                  *)

\* the user whose commands both loops receive, in the private conversation
Player == 1

\* the loop after its handler returned
Returned(me) == [Idle EXCEPT !.handled = me.handled, !.saved = me.saved]

\* what a step of a handler leaves alone
SharedFrame == UNCHANGED <<cfgVars, loopVars, run, probe>>

\* the directive _vk_new_order_logic is about to apply is double_previous
DoublePreviousDue(me) ==
    LET special_result == SpecialResult(SPECIAL_ORDERS, me.user, me.last_order)
    IN  special_result # None /\ SPECIAL_TYPE(special_result) = "double_previous"

\* handle_new and handle_done, lines 324-326 and 377-379: fetch_user
BeginHandler(l) ==
    /\ inflight[l].at = "idle"
    /\ inflight[l].handled < MaxCommands
    /\ users' = fetch_user(users, Player)
    /\ \E h \in {"new", "done"} :
         inflight' = [inflight EXCEPT ![l] =
                        [@ EXCEPT !.h = h, !.at = "fetched", !.uid = Player,
                                  !.peer = Player, !.user = users'[Player],
                                  !.handled = @ + 1]]
    /\ UNCHANGED <<active_orders, last_orders, created, sent>>
    /\ SharedFrame

\* handle_new, lines 327-338: get_active_order, and the rejection
NewGetActive(l) ==
    /\ inflight[l].h = "new" /\ inflight[l].at = "fetched"
    /\ LET me == inflight[l]
           active == active_orders[me.uid]
       IN  IF active.exists
           THEN /\ sent' \in Delivery(<<Msg(me.peer, Text("ALREADY_HAS_ORDER"))>>)
                /\ inflight' = [inflight EXCEPT ![l] = Returned(me)]
           ELSE /\ UNCHANGED sent
                /\ inflight' = [inflight EXCEPT ![l] =
                                  [me EXCEPT !.at = IF me.user.total_orders > 0
                                                    THEN "last" ELSE "special"]]
    /\ UNCHANGED <<dbVars, created>>
    /\ SharedFrame

\* _vk_new_order_logic, lines 240-244: get_last_order for the suppression rule
NewGetLast(l) ==
    /\ inflight[l].h = "new" /\ inflight[l].at = "last"
    /\ inflight' = [inflight EXCEPT ![l] =
                      [@ EXCEPT !.last_order = last_orders[inflight[l].uid],
                                !.at = "special"]]
    /\ UNCHANGED <<dbVars, created, sent>>
    /\ SharedFrame

\* _vk_new_order_logic, line 265: get_last_order of the double_previous branch
NewGetLastAgain(l) ==
    /\ inflight[l].h = "new" /\ inflight[l].at = "special"
    /\ DoublePreviousDue(inflight[l])
    /\ inflight' = [inflight EXCEPT ![l] =
                      [@ EXCEPT !.last_order = last_orders[inflight[l].uid],
                                !.at = "save"]]
    /\ UNCHANGED <<dbVars, created, sent>>
    /\ SharedFrame

\* _vk_new_order_logic, lines 246-319, and line 341: the order is computed
\* from the user row and the Last Completed Order the handler has read,
\* save_active_order stores it and the reply is sent.  At "save" the
\* suppression rule was decided on the first read of the Last Completed
\* Order and the second read gives only the dishes to double.
NewSave(l) ==
    /\ inflight[l].h = "new"
    /\ \/ inflight[l].at = "save"
       \/ inflight[l].at = "special" /\ ~DoublePreviousDue(inflight[l])
    /\ LET me == inflight[l]
           last_order == IF me.at = "save"
                         THEN [me.last_order EXCEPT !.tag = None]
                         ELSE me.last_order
       IN  \E o \in VkNewOrderLogic(DISHES_BY_LEVEL, SPECIAL_ORDERS, me.user,
                                    last_order) :
             /\ active_orders' = IF o.kind = "ok"
                                 THEN save_active_order(active_orders, me.uid,
                                                        o.dishes, o.tag)
                                 ELSE active_orders
             /\ created' = IF o.kind = "ok"
                           THEN [created EXCEPT ![me.uid] = Created(@, o.tag)]
                           ELSE created
             /\ sent' \in (IF o.kind = "ok"
                           THEN Delivery(<<Msg(me.peer,
                                   [t |-> o.text.t, dishes |-> o.text.dishes,
                                    total |-> o.text.total, suffix |-> None])>>)
                           ELSE {sent})
             /\ inflight' = [inflight EXCEPT ![l] =
                               IF o.kind = "ok"
                               THEN [Returned(me) EXCEPT !.saved = @ + 1]
                               ELSE [me EXCEPT !.at = "stopped"]]
    /\ UNCHANGED <<users, last_orders>>
    /\ SharedFrame

\* handle_done, lines 380-391: get_active_order, and the soft reply
DoneGetActive(l) ==
    /\ inflight[l].h = "done" /\ inflight[l].at = "fetched"
    /\ LET me == inflight[l]
           active == active_orders[me.uid]
       IN  IF ~active.exists
           THEN /\ sent' \in Delivery(<<Msg(me.peer, Text("NO_ACTIVE_ORDER"))>>)
                /\ inflight' = [inflight EXCEPT ![l] = Returned(me)]
           ELSE /\ UNCHANGED sent
                /\ inflight' = [inflight EXCEPT ![l] =
                                  [me EXCEPT !.active = active, !.at = "finish"]]
    /\ UNCHANGED <<dbVars, created>>
    /\ SharedFrame

\* handle_done, lines 393-404: finish_order_and_level with the tag and the
\* points of the order the handler has read
DoneFinish(l) ==
    /\ inflight[l].h = "done" /\ inflight[l].at = "finish"
    /\ LET me == inflight[l]
           order_crosses == SumPoints(me.active.dishes)
       IN  /\ users' = finish_order_and_level(users, me.uid, me.active.tag)
           /\ last_orders' = record_last_order(last_orders, me.uid, me.active,
                                               order_crosses)
           /\ inflight' = [inflight EXCEPT ![l] =
                             [me EXCEPT !.n_total = users'[me.uid].total_orders,
                                        !.level_changed =
                                            (users'[me.uid].level # users[me.uid].level),
                                        !.at = "clear"]]
    /\ UNCHANGED <<active_orders, created, sent>>
    /\ SharedFrame

\* handle_done, lines 405-437: clear_active_order, and the reply
DoneClear(l) ==
    /\ inflight[l].h = "done" /\ inflight[l].at = "clear"
    /\ LET me == inflight[l]
       IN  /\ active_orders' = clear_active_order(active_orders, me.uid)
           /\ sent' \in Delivery(<<Msg(me.peer,
                 [t |-> IF me.level_changed THEN "DONE_WITH_LEVEL_UP"
                        ELSE "DONE_ORDER",
                  dishes |-> <<>>, total |-> me.n_total,
                  suffix |-> Celebration(me.n_total)])>>)
           /\ inflight' = [inflight EXCEPT ![l] = Returned(me)]
    /\ UNCHANGED <<users, last_orders, created>>
    /\ SharedFrame

SharedNext ==
    \E l \in Loops :
        \/ BeginHandler(l)
        \/ NewGetActive(l) \/ NewGetLast(l) \/ NewGetLastAgain(l) \/ NewSave(l)
        \/ DoneGetActive(l) \/ DoneFinish(l) \/ DoneClear(l)

\* Both loops start on the empty store of Init and receive "new" and "done"
\* commands of the player.
SharedSpec == Init /\ [][SharedNext]_vars

\* C21: with two loops on one store, save_active_order of a "new" command
\* runs only while the user has no Active Order: the check and the save are
\* atomic, so an existing Active Order is never replaced.
NewCheckAndSaveAtomic ==
    [][\A l \in Loops :
          inflight'[l].saved > inflight[l].saved
          => ~active_orders[Player].exists]_vars

\* C22: the level, the completed-order count and the achievement flags of
\* every user are the same before and after a start, new, my-order,
\* top-stats or top10 command, an unknown command, an ignored or passed-over
\* event, a "done" that finds no Active Order, a reset by a caller who is
\* not an admin, and a handler that raises.
ProgressOnlyAtCompletion ==
    [][(/\ pc = "dispatch"
        /\ \/ run'.h \in {"start", "new", "my", "top", "top10", "unknown",
                          "ignored", "skip"}
           \/ run'.h = "done" /\ ~run'.finished
           \/ run'.h = "reset" /\ run'.uid \notin AdminIds
           \/ run'.raised)
       => \A u \in UserIds :
             /\ users'[u].level = users[u].level
             /\ users'[u].total_orders = users[u].total_orders
             /\ users'[u].flags = users[u].flags]_vars

\* a start was just handled for a user who has completed orders, a level
\* above 0 and an achievement flag
StartKeepsProgressReached ==
    /\ run.h = "start" /\ ~run.raised
    /\ users[run.uid].total_orders > 1
    /\ users[run.uid].level > 0
    /\ \E t \in Tags : users[run.uid].flags[t]

\* C23: with two loops on one store, the completed-order count of the user
\* never exceeds the number of Active Orders created for the user: no Active
\* Order is completed twice.
OrderCompletedAtMostOnce ==
    users[Player].total_orders <= inflight[1].saved + inflight[2].saved
====
